---------------------------- MODULE Spec2Model ----------------------------
(***************************************************************************)
(* A model of src/main.py: the event normalizer (GithubEvent.__init__),    *)
(* the two-tier cache of Request.fetch (process-wide memory_cache plus one *)
(* JSON file per user under .cache/) and the temp-file-then-rename write   *)
(* of Request.save_to_file_cache; the three SortStrategy classes with     *)
(* Request.set_sort_strategy / get_sorted_events; and aggregate_stats.     *)
(*                                                                         *)
(* Python values are encoded with uniformly shaped records:                *)
(*   Optional[str]      a sequence of at most one string (<<>> is None)    *)
(*   a JSON member      a record whose field k tells what the member is    *)
(*                      ("absent", "null", "scalar", "map", ...)           *)
(*   datetime           an integer; DatetimeMin is datetime.min            *)
(***************************************************************************)
EXTENDS Integers, Sequences, FiniteSets, TLC

\* ------------------------------------------------------------------ bounds
\* The clock runs over 1..MaxTime (one unit is far longer than a handler run).
MaxTime == 4
\* Longest commit list of a raw event the normalizer is applied to.
MaxCommits == 2
\* Number of buffered write() calls json.dump needs for one cache file.
NumChunks == 2
\* Longest list sort() is applied to.
MaxEvents == 3
\* Longest list aggregate_stats() is applied to.
MaxStatEvents == 2

\* ------------------------------------------------------- program constants
\* Request.TTL = timedelta(minutes=10), in clock units.
TTL == 2
\* datetime.min, the value stored for a missing or unparsable created_at.
DatetimeMin == 0

None == <<>>
Some(s) == <<s>>

\* EventType.PUSH.value
PUSH == "PushEvent"
ISSUES == "IssuesEvent"
WATCH == "WatchEvent"
CREATE == "CreateEvent"
DELETE == "DeleteEvent"
PULL_REQUEST == "PullRequestEvent"
FORK == "ForkEvent"

\* ======================================================== GithubEvent ====
\* The JSON member payload["size"].
SizeKinds == {"absent", "null", "int", "str_int", "str_bad", "str_empty",
              "float", "nan", "inf", "bool", "list"}
AbsentSize == [k |-> "absent", n |-> 0]
\* The JSON member payload["commits"]; items tell what each entry is:
\* a mapping without "distinct", with distinct true / false, or not a mapping.
CommitItems == {"d_absent", "d_true", "d_false", "nonmap"}
AbsentCommits == [k |-> "absent", items |-> <<>>]
\* {} : what self.payload is when the raw payload is missing or falsy.
EmptyPayload == [k |-> "map", size |-> AbsentSize, commits |-> AbsentCommits,
                 push_id |-> 0]

\* `x or 0` followed by int(...): does int() raise ValueError / TypeError ?
\* (payload.get("size", 1) is 1 when the member is absent.)
IntRaises(s) ==
    \/ s.k = "str_bad"                 \* int("abc") : ValueError
    \/ s.k = "nan"                     \* int(nan)   : ValueError
    \/ (s.k = "list" /\ s.n > 0)       \* int([..])  : TypeError

\* int(float("inf")) raises OverflowError, which line 51 does not catch
\* (json.loads gives inf for Infinity and for a number such as 1e999).
IntOverflows(s) == s.k = "inf"

\* int(payload.get("size", 1) or 0) when it does not raise.
IntOf(s) ==
    CASE s.k = "absent"    -> 1                    \* the default 1
      [] s.k = "null"      -> 0                    \* None or 0
      [] s.k = "int"       -> s.n                  \* 0 or 0 is 0 as well
      [] s.k = "str_int"   -> s.n                  \* int("3")
      [] s.k = "str_empty" -> 0                    \* "" or 0
      [] s.k = "float"     -> IF s.n >= 0 THEN s.n ELSE s.n + 1  \* n + 0.5, truncated
      [] s.k = "bool"      -> s.n                  \* int(True) = 1, False or 0 = 0
      [] OTHER             -> 0                    \* [] or 0

IsList(c) == c.k = "list"

\* lines 46-52: the commit count of a PushEvent.
PushCount(p) ==
    IF IntRaises(p.size)
    THEN IF IsList(p.commits) THEN Len(p.commits.items) ELSE 0
    ELSE LET count == IntOf(p.size)
         IN  IF count <= 0 /\ IsList(p.commits)
             THEN Len(p.commits.items)
             ELSE count

\* lines 53-60: the commit count of any other event.
OtherCount(p) ==
    IF IsList(p.commits) /\ p.commits.items # <<>>
    THEN IF \E i \in 1..Len(p.commits.items) : p.commits.items[i] = "nonmap"
         THEN 0                         \* c.get raises, except Exception: count = 0
         ELSE Cardinality({i \in 1..Len(p.commits.items) :
                              p.commits.items[i] # "d_false"})
    ELSE 0

Max(a, b) == IF a >= b THEN a ELSE b

\* line 43: event_data.get("payload") or {}
PayloadOf(raw) ==
    IF raw.payload.k \in {"absent", "null", "falsy"} THEN EmptyPayload
    ELSE raw.payload

\* lines 28-41: created_at.  "iso" is a string fromisoformat accepts once a
\* trailing Z is replaced; the tzinfo is dropped, the fields are kept.
CreatedAtOf(raw) ==
    IF raw.created_at.k = "iso" THEN raw.created_at.at ELSE DatetimeMin

\* GithubEvent(event_data) raises: .get is called on a value that has none.
Raises(raw) ==
    \/ raw.repo.k \in {"null", "scalar"}      \* line 27
    \/ raw.actor.k \in {"null", "scalar"}     \* line 42
    \/ raw.payload.k = "scalar"               \* line 45: a truthy non-mapping
    \/ /\ raw.type = Some(PUSH)              \* line 48
       /\ raw.payload.k = "map"
       /\ IntOverflows(raw.payload.size)

\* The object GithubEvent(event_data) builds when it does not raise.
GithubEvent(raw) ==
    [type         |-> raw.type,
     repo_name    |-> IF raw.repo.k = "map" THEN raw.repo.name ELSE None,
     created_at   |-> CreatedAtOf(raw),
     actor        |-> IF raw.actor.k = "map" THEN raw.actor.login ELSE None,
     payload      |-> PayloadOf(raw),
     commit_count |-> Max(IF raw.type = Some(PUSH)
                          THEN PushCount(PayloadOf(raw))
                          ELSE OtherCount(PayloadOf(raw)), 0)]

\* [GithubEvent(event_data) for event_data in data]: raises if one does.
AnyRaises(data) == \E i \in 1..Len(data) : Raises(data[i])
Normalize(data) == [i \in 1..Len(data) |-> GithubEvent(data[i])]

\* ======================================================= SortStrategy ====
Strategies == {"SortByDate", "SortByRepository", "SortByType"}

\* The place of a str among the strs that occur as sort keys, in the order
\* of Python's str comparison.
StrRank(s) ==
    CASE s = ""          -> 0
      [] s = "ForkEvent" -> 1
      [] s = "PushEvent" -> 2
      [] s = "a/b"       -> 1
      [] s = "c/d"       -> 2

\* The key= function of each strategy (lines 95, 99, 103): a datetime, a str,
\* or None (repo_name is None when the event gave no repository name).
KeyOf(strategy, e) ==
    CASE strategy = "SortByDate" ->
             [k |-> "datetime", v |-> e.created_at]
      [] strategy = "SortByRepository" ->
             IF e.repo_name = None THEN [k |-> "none", v |-> 0]
             ELSE [k |-> "str", v |-> StrRank(e.repo_name[1])]
      [] strategy = "SortByType" ->
             [k |-> "str", v |-> StrRank(IF e.type = None THEN "" ELSE e.type[1])]

\* a < b on two keys that can be compared.
KeyLess(a, b) == a.v < b.v

\* sorted() compares every item of a list of two or more with another item,
\* and `<` with None on either side raises TypeError.
SortRaises(strategy, events) ==
    /\ Len(events) >= 2
    /\ \E i \in 1..Len(events) : KeyOf(strategy, events[i]).k = "none"

\* x put into the ordered list s behind every item whose key is not greater.
InsertBehind(strategy, s, x) ==
    LET n == Cardinality({i \in 1..Len(s) :
                 ~KeyLess(KeyOf(strategy, x), KeyOf(strategy, s[i]))})
    IN  SubSeq(s, 1, n) \o <<x>> \o SubSeq(s, n + 1, Len(s))

\* list.sort(): a stable ascending sort, leftmost item first.
RECURSIVE StableSort(_, _)
StableSort(strategy, s) ==
    IF s = <<>> THEN <<>>
    ELSE InsertBehind(strategy, StableSort(strategy, SubSeq(s, 1, Len(s) - 1)),
                      s[Len(s)])

Reverse(s) == [i \in 1..Len(s) |-> s[Len(s) + 1 - i]]

\* sorted(events, key=..., reverse=...): a new list; with reverse the list is
\* reversed, sorted and reversed again, so that equal keys keep their order.
sorted(events, strategy, reverse) ==
    IF reverse THEN Reverse(StableSort(strategy, Reverse(events)))
    ELSE StableSort(strategy, events)

\* SortByDate.sort / SortByRepository.sort / SortByType.sort (lines 93-103).
sort(strategy, events) == sorted(events, strategy, strategy = "SortByDate")

NoSorted == [st |-> "none", list |-> <<>>]
\* The call strategy.sort(events), for the caller.
SortCall(strategy, events) ==
    IF SortRaises(strategy, events) THEN [st |-> "raised", list |-> <<>>]
    ELSE [st |-> "ok", list |-> sort(strategy, events)]

\* ==================================================== aggregate_stats ====
\* STATS_DAYS = 30, the window of the statistics, in clock units.
STATS_DAYS == 2

\* lines 234-236, with t for datetime.now().
filter_recent_events(events, days, t) ==
    LET cutoff == t - days
        Recent(e) == e.created_at # DatetimeMin /\ e.created_at >= cutoff
    IN  SelectSeq(events, Recent)

\* lines 248-264: the key of stats an event is counted under.
Bucket(e) ==
    CASE e.type = Some(PUSH)         -> "Commits"
      [] e.type = Some(PULL_REQUEST) -> "Pull requests"
      [] e.type = Some(ISSUES)       -> "Issues"
      [] e.type = Some(WATCH)        -> "Stars / Watches"
      [] e.type = Some(FORK)         -> "Forks"
      [] e.type = Some(CREATE)       -> "Creates"
      [] e.type = Some(DELETE)       -> "Deletes"
      [] OTHER                       -> "Other"

\* Every event adds one to the key of its kind.
AmountOne(e) == 1

\* lines 248-264: what an event adds to its key.
Amount(e) == IF e.type = Some(PUSH) THEN Max(e.commit_count, 0) ELSE 1

\* stats[b] += n on a Counter: a key that is not there counts as 0.
Add(c, b, n) ==
    [x \in DOMAIN c \cup {b} |->
        (IF x \in DOMAIN c THEN c[x] ELSE 0) + (IF x = b THEN n ELSE 0)]

\* lines 245-264: the loop over recent_events, from Counter().
RECURSIVE Tally(_)
Tally(recent) ==
    IF recent = <<>> THEN <<>>
    ELSE LET e == recent[Len(recent)]
         IN  Add(Tally(SubSeq(recent, 1, Len(recent) - 1)), Bucket(e), Amount(e))

\* lines 239-265, with t for datetime.now().
aggregate_stats(events, days, t) ==
    LET recent_events == filter_recent_events(events, days, t)
    IN  IF recent_events = <<>> THEN [st |-> "None", counts |-> <<>>]
        ELSE [st |-> "dict", counts |-> Tally(recent_events)]


\* ============================================================ the state ==
Users == {"u1", "u2"}
\* Request objects (each is also the flow of control of its fetch() call).
Requests == {1, 2}

VARIABLES
    now,            \* datetime.now()
    memory_cache,   \* Request.memory_cache : user -> (events, cache_time)
    cacheFile,      \* the file get_cache_path() names, per user
    tempFile,       \* the file cache_path.with_suffix('.tmp') names, per user
    req,            \* the Request objects and the position of their fetch()
    hist,           \* history of the running fetch() of each Request
    lastRemote,     \* history: last non-empty remote result in this process
    event_data,     \* the argument of a GithubEvent(event_data) call
    result,         \* what that call did
    reloaded,       \* what GithubEvent did with the serialized form of result
    events_in,      \* the list passed to sort() / aggregate_stats()
    sort_strategy,  \* the SortStrategy object sort() is called on
    sorted_out,     \* what sort() did
    stats           \* what aggregate_stats() did

\* The variables of the calls of sort() and aggregate_stats().
sorting == <<events_in, sort_strategy, sorted_out, stats>>
\* The variables of the calls of the functions that use no cache.
pure == <<reloaded, sorting>>

vars == <<now, memory_cache, cacheFile, tempFile, req, hist, lastRemote,
          event_data, result, pure>>

NoEntry == [has |-> FALSE, events |-> <<>>, time |-> 0]

\* cache_data of save_to_file_cache / the object json.load returns.
NoData == [timestamp |-> 0, events |-> <<>>]
\* A file is absent ("none"), what json.dump wrote so far ("data": the
\* sequence of the write() calls' blocks), or something else put there:
\* "unreadable" (open raises), "garbage" (json.load raises), "nofields"
\* (valid JSON without 'timestamp' / 'events').
NoFile == [st |-> "none", chunks |-> <<>>]
Chunk(d, i) == [d |-> d, i |-> i]
\* The block of a position no write() has filled.
Hole == Chunk(NoData, 0)
\* The complete output of json.dump(cache_data, f).
Dumped(d) == [i \in 1..NumChunks |-> Chunk(d, i)]
DataFile(d) == [st |-> "data", chunks |-> Dumped(d)]
\* json.load succeeds on what json.dump wrote iff every block of one dump is there.
Complete(chunks) == Len(chunks) = NumChunks /\ chunks = Dumped(chunks[1].d)

\* sortStrategy is SortByDate() unless one is passed (line 117); sorted_events
\* is the list get_sorted_events returned to a caller that still uses it.
NoRequest == [username |-> "", events |-> <<>>, pc |-> "none", ret |-> "none",
              cache_data |-> NoData, written |-> 0, fd |-> "none",
              sortStrategy |-> "SortByDate", sorted_events |-> NoSorted]
NoLast == [has |-> FALSE, t |-> 0, events |-> <<>>, saveFailed |-> FALSE]
NoSnapshot == [mem |-> NoEntry, file |-> NoFile, temp |-> NoFile, events |-> <<>>]
NoHist == [called |-> FALSE, started |-> 0, calls |-> 0, src |-> "none",
           resp |-> "none", saveFailed |-> FALSE, prior |-> NoLast,
           pre |-> NoSnapshot]

\* ------------------------------------------------------ the remote source
RepoMap(n) == [k |-> "map", name |-> n]
ActorMap(n) == [k |-> "map", login |-> n]
Iso(t) == [k |-> "iso", at |-> t]
RawPush(v) ==
    [type |-> Some(PUSH), repo |-> RepoMap(Some("a/b")), created_at |-> Iso(v),
     actor |-> ActorMap(Some("al")),
     payload |-> [k |-> "map", size |-> [k |-> "int", n |-> 3],
                  commits |-> AbsentCommits, push_id |-> v]]
RawFork(v) ==
    [type |-> Some(FORK), repo |-> RepoMap(Some("c/d")), created_at |-> Iso(v),
     actor |-> ActorMap(Some("al")),
     payload |-> [k |-> "map", size |-> AbsentSize,
                  commits |-> AbsentCommits, push_id |-> v]]
\* An event whose "repo" member is null.
RawNullRepo(v) == [RawPush(v) EXCEPT !.repo = [k |-> "null", name |-> None]]
\* An event without a "repo" member.
AbsentRepo == [k |-> "absent", name |-> None]
RawNoRepo(v) == [RawFork(v) EXCEPT !.repo = AbsentRepo]
\* The events of user u at time v: those of u2 include one without a
\* repository.
Feed(u, v) ==
    IF u = "u1" THEN <<RawFork(v), RawPush(v)>> ELSE <<RawNoRepo(v), RawPush(v)>>

\* What urlopen + json.loads can give for user u at time v: an HTTP 404,
\* another HTTP status, a transport or decoding error, or the decoded list.
\* The feed's events carry the time they were served in payload.push_id.
Responses(u, v) ==
    {[kind |-> k, data |-> <<>>] : k \in {"404", "http", "transport"}}
    \cup {[kind |-> "ok", data |-> d] :
             d \in {<<>>, Feed(u, v), <<RawPush(v), RawNullRepo(v)>>}}

\* ----------------------------------------------------- the durable tier
NoneList == [some |-> FALSE, events |-> <<>>]

\* load_from_file_cache without the test of line 175.
load_ignoring_ttl(file, t) ==
    IF file.st # "data" \/ ~Complete(file.chunks) THEN NoneList
    ELSE IF AnyRaises(file.chunks[1].d.events) THEN NoneList
    ELSE [some |-> TRUE, events |-> Normalize(file.chunks[1].d.events)]

\* load_from_file_cache with a file one clock unit old taken as expired.
load_short_ttl(file, t) ==
    IF file.st # "data" \/ ~Complete(file.chunks) THEN NoneList
    ELSE IF AnyRaises(file.chunks[1].d.events)
            \/ ~(t - file.chunks[1].d.timestamp < TTL - 1) THEN NoneList
    ELSE [some |-> TRUE, events |-> Normalize(file.chunks[1].d.events)]

\* load_from_file_cache with a file of age TTL taken as Fresh.
load_inclusive_ttl(file, t) ==
    IF file.st # "data" \/ ~Complete(file.chunks) THEN NoneList
    ELSE IF AnyRaises(file.chunks[1].d.events)
            \/ ~(t - file.chunks[1].d.timestamp <= TTL) THEN NoneList
    ELSE [some |-> TRUE, events |-> Normalize(file.chunks[1].d.events)]

\* lines 166-179
load_from_file_cache(file, t) ==
    IF file.st = "none" THEN NoneList                       \* line 169
    ELSE IF file.st # "data" \/ ~Complete(file.chunks)
         THEN NoneList                                      \* except: pass
    ELSE LET cache_data == file.chunks[1].d
         IN  IF t - cache_data.timestamp < TTL
             THEN IF AnyRaises(cache_data.events)
                  THEN NoneList                             \* except: pass
                  ELSE [some |-> TRUE, events |-> Normalize(cache_data.events)]
             ELSE NoneList

\* An entry of cache_data['events'] without the event's payload.
SerializeWithoutPayload(e) ==
    [type |-> e.type, repo |-> [k |-> "map", name |-> e.repo_name],
     created_at |-> [k |-> "iso", at |-> e.created_at],
     actor |-> [k |-> "map", login |-> e.actor],
     payload |-> [k |-> "absent", size |-> AbsentSize, commits |-> AbsentCommits,
                  push_id |-> 0]]

\* lines 204-210: one entry of cache_data['events'].
SerializeEvent(e) ==
    [type |-> e.type, repo |-> RepoMap(e.repo_name), created_at |-> Iso(e.created_at),
     actor |-> ActorMap(e.actor), payload |-> e.payload]
\* lines 201-213
BuildCacheData(events, t) ==
    [timestamp |-> t,
     events |-> [i \in 1..Len(events) |-> SerializeEvent(events[i])]]

\* f.write of block c at file position pos (positions past the end leave a hole).
WriteAt(chunks, pos, c) ==
    [i \in 1..Max(Len(chunks), pos) |->
        IF i = pos THEN c ELSE IF i <= Len(chunks) THEN chunks[i] ELSE Hole]

InFlight(r) == req[r].pc \notin {"none", "idle"}
Quiet == \A r \in Requests : ~InFlight(r)

\* ========================================================== the actions ==
\* Request.__init__ (lines 113-118): a new object takes the place of r.
Construct(r, u) ==
    /\ req[r].pc \in {"none", "idle"}
    /\ req' = [req EXCEPT ![r] = [NoRequest EXCEPT !.username = u, !.pc = "idle"]]
    /\ hist' = [hist EXCEPT ![r] = NoHist]
    /\ UNCHANGED <<now, memory_cache, cacheFile, tempFile, lastRemote,
                   event_data, result, pure>>

Snapshot(r) ==
    [mem |-> memory_cache[req[r].username], file |-> cacheFile[req[r].username],
     temp |-> tempFile[req[r].username], events |-> req[r].events]

\* The in-process entry expires one clock unit early.
MemoryFreshShort(m, t) == m.has /\ t - m.time < TTL - 1

\* lines 125-127: the in-process entry of the key is there and Fresh.
MemoryFresh(m, t) == m.has /\ t - m.time < TTL

\* fetch() is called; lines 123-129, the in-process tier.
FetchMemoryTier(r) ==
    /\ req[r].pc = "idle"
    /\ LET u == req[r].username
           m == memory_cache[u]
           hit == MemoryFresh(m, now)
       IN  /\ req' = [req EXCEPT ![r].events = IF hit THEN m.events ELSE @,
                                 ![r].ret = IF hit THEN "true" ELSE "none",
                                 ![r].pc = IF hit THEN "done" ELSE "file"]
           /\ hist' = [hist EXCEPT ![r] =
                         [NoHist EXCEPT !.called = TRUE, !.started = now,
                                        !.prior = lastRemote[u],
                                        !.pre = Snapshot(r),
                                        !.src = IF hit THEN "memory" ELSE "none"]]
    /\ UNCHANGED <<now, memory_cache, cacheFile, tempFile, lastRemote,
                   event_data, result, pure>>

\* line 134: the entry a promotion stores.
Promoted(file_cache, t) == [has |-> TRUE, events |-> file_cache, time |-> t]

\* The durable tier with a promotion that also writes the file anew, with
\* the time of the promotion.
FetchFileTierRestamps(r) ==
    /\ req[r].pc = "file"
    /\ LET u == req[r].username
           file_cache == load_from_file_cache(cacheFile[u], now)
       IN  IF file_cache.some /\ file_cache.events # <<>>
           THEN /\ req' = [req EXCEPT ![r].events = file_cache.events,
                                      ![r].ret = "true", ![r].pc = "done"]
                /\ memory_cache' = [memory_cache EXCEPT
                                      ![u] = Promoted(file_cache.events, now)]
                /\ cacheFile' = [cacheFile EXCEPT
                                   ![u] = DataFile([cacheFile[u].chunks[1].d EXCEPT
                                                       !.timestamp = now])]
                /\ hist' = [hist EXCEPT ![r].src = "file"]
           ELSE /\ req' = [req EXCEPT ![r].pc = "remote"]
                /\ UNCHANGED <<memory_cache, hist, cacheFile>>
    /\ UNCHANGED <<now, tempFile, lastRemote, event_data, result, pure>>

\* lines 130-135, the durable tier.
FetchFileTier(r) ==
    /\ req[r].pc = "file"
    /\ LET u == req[r].username
           file_cache == load_from_file_cache(cacheFile[u], now)
       IN  IF file_cache.some /\ file_cache.events # <<>>        \* if file_cache:
           THEN /\ req' = [req EXCEPT ![r].events = file_cache.events,
                                      ![r].ret = "true", ![r].pc = "done"]
                /\ memory_cache' = [memory_cache EXCEPT
                                      ![u] = Promoted(file_cache.events, now)]
                /\ hist' = [hist EXCEPT ![r].src = "file"]
           ELSE /\ req' = [req EXCEPT ![r].pc = "remote"]
                /\ UNCHANGED <<memory_cache, hist>>
    /\ UNCHANGED <<now, cacheFile, tempFile, lastRemote, event_data, result, pure>>

\* How fetch() takes a response: "404" / "http" (HTTPError), "transport" (any
\* other exception of urlopen / json.loads), "empty" (not data), "raises" (a
\* GithubEvent(...) raised, caught at line 155), "ok".
Outcome(resp) ==
    IF resp.kind # "ok" THEN resp.kind
    ELSE IF resp.data = <<>> THEN "empty"
    ELSE IF AnyRaises(resp.data) THEN "raises"
    ELSE "ok"

\* A remote call that failed, served from whatever the in-process tier holds.
FailedServesStale(rq) ==
    IF memory_cache[rq.username].has
    THEN [rq EXCEPT !.events = memory_cache[rq.username].events,
                    !.ret = "true", !.pc = "done"]
    ELSE [rq EXCEPT !.ret = "false", !.pc = "done"]

\* A failure that also empties the events of the Request.
FailedClearsEvents(rq) == [rq EXCEPT !.events = <<>>, !.ret = "false", !.pc = "done"]

\* lines 140-142 and 149-157: print the reason, return False.
Failed(rq) == [rq EXCEPT !.ret = "false", !.pc = "done"]

\* lines 136-146 and 149-157: the remote call, up to the in-process store.
FetchRemote(r) ==
    /\ req[r].pc = "remote"
    /\ \E resp \in Responses(req[r].username, now) :
         LET u == req[r].username
             events == Normalize(resp.data)
         IN  /\ hist' = [hist EXCEPT ![r].calls = @ + 1, ![r].resp = Outcome(resp),
                                     ![r].src = "remote"]
             /\ IF Outcome(resp) = "ok"
                THEN /\ req' = [req EXCEPT ![r].events = events, ![r].pc = "build"]
                     /\ memory_cache' = [memory_cache EXCEPT
                                           ![u] = [has |-> TRUE, events |-> events,
                                                   time |-> now]]
                     /\ lastRemote' = [lastRemote EXCEPT
                                         ![u] = [has |-> TRUE, t |-> now,
                                                 events |-> events,
                                                 saveFailed |-> FALSE]]
                ELSE /\ req' = [req EXCEPT ![r] = Failed(req[r])]
                     /\ UNCHANGED <<memory_cache, lastRemote>>
    /\ UNCHANGED <<now, cacheFile, tempFile, event_data, result, pure>>

\* An exception inside the try of save_to_file_cache: control goes to line 220.
ToExcept(r) ==
    /\ req' = [req EXCEPT ![r].pc = "except", ![r].fd = "none"]
    /\ hist' = [hist EXCEPT ![r].saveFailed = TRUE]
    /\ lastRemote' = [lastRemote EXCEPT ![req[r].username].saveFailed = TRUE]

\* lines 198-213: cache_data is built (or building it raises).
SaveBuild(r) ==
    /\ req[r].pc = "build"
    /\ \E fail \in BOOLEAN :
         IF fail THEN ToExcept(r)
         ELSE /\ req' = [req EXCEPT ![r].cache_data = BuildCacheData(req[r].events, now),
                                    ![r].pc = "open"]
              /\ UNCHANGED <<hist, lastRemote>>
    /\ UNCHANGED <<now, memory_cache, cacheFile, tempFile, event_data, result, pure>>

\* The write without a temporary file: open(cache_path, 'w').
SaveOpenInPlace(r) ==
    /\ req[r].pc = "open"
    /\ cacheFile' = [cacheFile EXCEPT ![req[r].username] =
                        [st |-> "data", chunks |-> <<>>]]
    /\ req' = [req EXCEPT ![r].fd = "cache", ![r].written = 0, ![r].pc = "write"]
    /\ UNCHANGED <<now, memory_cache, tempFile, hist, lastRemote,
                   event_data, result, pure>>

\* line 217: open(temp_path, 'w') creates the file or truncates the one there.
SaveOpen(r) ==
    /\ req[r].pc = "open"
    /\ \E fail \in BOOLEAN :
         IF fail THEN ToExcept(r) /\ UNCHANGED tempFile
         ELSE /\ tempFile' = [tempFile EXCEPT ![req[r].username] =
                                 [st |-> "data", chunks |-> <<>>]]
              /\ req' = [req EXCEPT ![r].fd = "temp", ![r].written = 0,
                                    ![r].pc = "write"]
              /\ UNCHANGED <<hist, lastRemote>>
    /\ UNCHANGED <<now, memory_cache, cacheFile, event_data, result, pure>>

\* line 218: one write() of json.dump's output through r's file object, which
\* is the file named temp_path ("temp"), or, after another flow renamed or
\* unlinked that file, the file named cache_path ("cache") or no name ("gone").
\* The with block closes the file after the last block, and when a write raises.
SaveWrite(r) ==
    /\ req[r].pc = "write"
    /\ \E fail \in BOOLEAN :
         IF fail THEN ToExcept(r) /\ UNCHANGED <<tempFile, cacheFile>>
         ELSE LET u == req[r].username
                  pos == req[r].written + 1
                  c == Chunk(req[r].cache_data, pos)
                  last == pos = NumChunks
              IN  /\ tempFile' = IF req[r].fd = "temp"
                                 THEN [tempFile EXCEPT ![u].chunks = WriteAt(@, pos, c)]
                                 ELSE tempFile
                  /\ cacheFile' = IF req[r].fd = "cache"
                                  THEN [cacheFile EXCEPT ![u].chunks = WriteAt(@, pos, c)]
                                  ELSE cacheFile
                  /\ req' = [req EXCEPT ![r].written = pos,
                                        ![r].fd = IF last THEN "none" ELSE @,
                                        ![r].pc = IF last THEN "replace" ELSE @]
                  /\ UNCHANGED <<hist, lastRemote>>
    /\ UNCHANGED <<now, memory_cache, event_data, result, pure>>

\* The open file objects of the other flows after the file named temp_path of
\* user u became `to` and the file named cache_path lost its name.
Retarget(r, u, to) ==
    [q \in Requests |->
        IF q = r \/ req[q].username # u THEN req[q]
        ELSE [req[q] EXCEPT !.fd = IF @ = "temp" THEN to
                                   ELSE IF @ = "cache" /\ to = "cache" THEN "gone"
                                   ELSE @]]

\* line 219: temp_path.replace(cache_path); then fetch() returns True.
SaveReplace(r) ==
    /\ req[r].pc = "replace"
    /\ LET u == req[r].username
       IN  IF tempFile[u].st = "none"
           THEN ToExcept(r) /\ UNCHANGED <<tempFile, cacheFile>>  \* FileNotFoundError
           ELSE \E fail \in BOOLEAN :
                  IF fail THEN ToExcept(r) /\ UNCHANGED <<tempFile, cacheFile>>
                  ELSE /\ cacheFile' = [cacheFile EXCEPT ![u] = tempFile[u]]
                       /\ tempFile' = [tempFile EXCEPT ![u] = NoFile]
                       /\ req' = [Retarget(r, u, "cache") EXCEPT
                                     ![r].ret = "true", ![r].pc = "done"]
                       /\ UNCHANGED <<hist, lastRemote>>
    /\ UNCHANGED <<now, memory_cache, event_data, result, pure>>

\* The handler without its cleanup: the temporary file is left behind.
SaveExceptNoUnlink(r) ==
    /\ req[r].pc = "except"
    /\ req' = [req EXCEPT ![r].ret = "true", ![r].pc = "done"]
    /\ UNCHANGED <<now, memory_cache, cacheFile, tempFile, hist, lastRemote,
                   event_data, result, pure>>

\* No handler: the exception leaves save_to_file_cache and line 155 catches it.
SaveExceptReraises(r) ==
    /\ req[r].pc = "except"
    /\ req' = [req EXCEPT ![r].ret = "false", ![r].pc = "done"]
    /\ UNCHANGED <<now, memory_cache, cacheFile, tempFile, hist, lastRemote,
                   event_data, result, pure>>

\* lines 220-222: the handler prints and tests temp_path.exists().
SaveExcept(r) ==
    /\ req[r].pc = "except"
    /\ req' = IF tempFile[req[r].username].st # "none"
              THEN [req EXCEPT ![r].pc = "unlink"]
              ELSE [req EXCEPT ![r].ret = "true", ![r].pc = "done"]
    /\ UNCHANGED <<now, memory_cache, cacheFile, tempFile, hist, lastRemote,
                   event_data, result, pure>>

\* line 223: temp_path.unlink().  When the file is gone by now, unlink raises
\* FileNotFoundError out of save_to_file_cache, and line 155 catches it.
SaveUnlink(r) ==
    /\ req[r].pc = "unlink"
    /\ LET u == req[r].username
       IN  IF tempFile[u].st # "none"
           THEN /\ tempFile' = [tempFile EXCEPT ![u] = NoFile]
                /\ req' = [Retarget(r, u, "gone") EXCEPT
                              ![r].ret = "true", ![r].pc = "done"]
           ELSE /\ req' = [req EXCEPT ![r].ret = "false", ![r].pc = "done"]
                /\ UNCHANGED tempFile
    /\ UNCHANGED <<now, memory_cache, cacheFile, hist, lastRemote,
                   event_data, result, pure>>

\* The caller has the value fetch() returned (line 522).
FetchReturn(r) ==
    /\ req[r].pc = "done"
    /\ req' = [req EXCEPT ![r].pc = "idle", ![r].ret = "none",
                          ![r].cache_data = NoData, ![r].written = 0]
    /\ hist' = [hist EXCEPT ![r] = NoHist]
    /\ UNCHANGED <<now, memory_cache, cacheFile, tempFile, lastRemote,
                   event_data, result, pure>>

\* lines 158-159
set_sort_strategy(r, strat) ==
    /\ req[r].pc = "idle"
    /\ req' = [req EXCEPT ![r].sortStrategy = strat]
    /\ UNCHANGED <<now, memory_cache, cacheFile, tempFile, hist, lastRemote,
                   event_data, result, pure>>

\* lines 160-161: self.sortStrategy.sort(self.events), for the caller (line
\* 334); called between two fetch() calls or by the caller that has just got
\* the value of fetch().
get_sorted_events(r) ==
    /\ req[r].pc \in {"idle", "done"}
    /\ req' = [req EXCEPT ![r].sorted_events =
                              SortCall(req[r].sortStrategy, req[r].events),
                          ![r].pc = "sorted"]
    /\ UNCHANGED <<now, memory_cache, cacheFile, tempFile, hist, lastRemote,
                   event_data, result, pure>>

\* The caller is done with the list (or with the exception), and with the
\* value of the fetch() before it.
SortedReturn(r) ==
    /\ req[r].pc = "sorted"
    /\ req' = [req EXCEPT ![r].sorted_events = NoSorted, ![r].pc = "idle",
                          ![r].ret = "none", ![r].cache_data = NoData,
                          ![r].written = 0]
    /\ hist' = [hist EXCEPT ![r] = NoHist]
    /\ UNCHANGED <<now, memory_cache, cacheFile, tempFile, lastRemote,
                   event_data, result, pure>>

\* Time passes between two calls.
Tick ==
    /\ Quiet
    /\ now < MaxTime
    /\ now' = now + 1
    /\ UNCHANGED <<memory_cache, cacheFile, tempFile, req, hist, lastRemote,
                   event_data, result, pure>>

\* The process ends at any point (a crash included) and a new one starts:
\* the class attribute memory_cache is {} again, the files stay as they are.
Restart ==
    /\ \E r \in Requests : req[r].pc # "none"
    /\ memory_cache' = [u \in Users |-> NoEntry]
    /\ req' = [r \in Requests |-> NoRequest]
    /\ hist' = [r \in Requests |-> NoHist]
    /\ lastRemote' = [u \in Users |-> NoLast]
    /\ UNCHANGED <<now, cacheFile, tempFile, event_data, result, pure>>

\* The steps of r's fetch().
Step(r) ==
    \/ FetchMemoryTier(r)
    \/ FetchFileTier(r)
    \/ FetchRemote(r)
    \/ SaveBuild(r)
    \/ SaveOpen(r)
    \/ SaveWrite(r)
    \/ SaveReplace(r)
    \/ SaveExcept(r)
    \/ SaveUnlink(r)
    \/ FetchReturn(r)

RawNone ==
    [type |-> None, repo |-> [k |-> "absent", name |-> None],
     created_at |-> [k |-> "absent", at |-> 0],
     actor |-> [k |-> "absent", login |-> None],
     payload |-> [k |-> "absent", size |-> AbsentSize, commits |-> AbsentCommits,
                  push_id |-> 0]]
NoResult == [st |-> "none", ev |-> GithubEvent(RawNone)]

\* Nothing is cached and no Request exists.
InitTiers ==
    /\ memory_cache = [u \in Users |-> NoEntry]
    /\ cacheFile = [u \in Users |-> NoFile]
    /\ tempFile = [u \in Users |-> NoFile]
    /\ req = [r \in Requests |-> NoRequest]
    /\ hist = [r \in Requests |-> NoHist]
    /\ lastRemote = [u \in Users |-> NoLast]

InitCache ==
    /\ now = 1
    /\ InitTiers

NoStats == [st |-> "none", counts |-> <<>>]
\* No call of sort() or aggregate_stats() is made.
NoSorting ==
    /\ events_in = <<>>
    /\ sort_strategy = "SortByDate"
    /\ sorted_out = NoSorted
    /\ stats = NoStats

Init ==
    /\ InitCache
    /\ event_data = RawNone
    /\ result = NoResult
    /\ reloaded = NoResult
    /\ NoSorting

\* One flow at a time (the Tk event loop runs one on_show at a time).
Next ==
    \/ \E u \in Users : Construct(1, u)
    \/ Step(1)
    \/ Tick
    \/ Restart

Spec == Init /\ [][Next]_vars

\* ------------------------------------------- the durable file is damaged
\* What somebody else can leave at cache_path at time t: a file that cannot
\* be opened, one that is no JSON, JSON without the two members, and JSON
\* with both members whose event list is empty or holds an event without a
\* usable "repo".
Damaged(t) ==
    {[st |-> s, chunks |-> <<>>] : s \in {"unreadable", "garbage", "nofields"}}
    \cup {DataFile([timestamp |-> t, events |-> e]) :
             e \in {<<>>, <<RawNullRepo(t)>>}}

Tamper(u) ==
    /\ Quiet
    /\ \E f \in Damaged(now) : cacheFile' = [cacheFile EXCEPT ![u] = f]
    /\ UNCHANGED <<now, memory_cache, tempFile, req, hist, lastRemote,
                   event_data, result, pure>>

\* One key is enough here: the keys share nothing (the runs of Spec cover two).
NextEnv ==
    \/ Construct(1, "u1")
    \/ Step(1)
    \/ Tick
    \/ Restart
    \/ Tamper("u1")

SpecEnv == Init /\ [][NextEnv]_vars

\* ------------------------------------------- the ordering is switched
\* One flow that also changes the strategy of its Request and asks for the
\* sorted events, at any time between two fetch() calls.
NextSession ==
    \/ \E u \in Users : Construct(1, u)
    \/ Step(1)
    \/ \E strat \in Strategies : set_sort_strategy(1, strat)
    \/ get_sorted_events(1)
    \/ SortedReturn(1)
    \/ Tick
    \/ Restart

SpecSession == Init /\ [][NextSession]_vars

\* ------------------------------------------------ one key, a longer run
\* The clock goes on until records of an age of 2 x TTL could be served.
LongRun == 2 * TTL + 1

LateTick ==
    /\ Quiet
    /\ now < LongRun
    /\ now' = now + 1
    /\ UNCHANGED <<memory_cache, cacheFile, tempFile, req, hist, lastRemote,
                   event_data, result, pure>>

NextLong ==
    \/ Construct(1, "u1")
    \/ Step(1)
    \/ LateTick
    \/ Restart

SpecLong == Init /\ [][NextLong]_vars

\* --------------------------------- one Request, fetched again and again
\* One key; the Request is asked for its sorted events between the calls
\* and right after a fetch() returned.
NextRetry ==
    \/ Construct(1, "u1")
    \/ Step(1)
    \/ \E strat \in Strategies : set_sort_strategy(1, strat)
    \/ get_sorted_events(1)
    \/ SortedReturn(1)
    \/ Tick
    \/ Restart

SpecRetry == Init /\ [][NextRetry]_vars

\* ------------------------------------------------ two flows for one key
\* Two Request objects of one process whose fetch() calls run in two
\* threads: any interleaving of their steps.
NextConc ==
    \/ \E r \in Requests : Construct(r, "u1")
    \/ \E r \in Requests : Step(r)
    \/ Tick

SpecConc == Init /\ [][NextConc]_vars

\* ------------------------------------------------------ the normalizer
Sizes ==
    {AbsentSize, [k |-> "null", n |-> 0], [k |-> "str_bad", n |-> 0],
     [k |-> "str_empty", n |-> 0]}
    \cup {[k |-> "int", n |-> n] : n \in {-1, 0, 2}}
    \cup {[k |-> "str_int", n |-> n] : n \in {0, 2}}
    \cup {[k |-> "float", n |-> n] : n \in {-1, 0, 1}}
    \cup {[k |-> "nan", n |-> 0], [k |-> "inf", n |-> 0]}
    \cup {[k |-> "bool", n |-> n] : n \in {0, 1}}
    \cup {[k |-> "list", n |-> n] : n \in {0, 1}}
CommitLists ==
    UNION {[1..n -> CommitItems] : n \in 0..MaxCommits}
Commits ==
    {[k |-> c, items |-> <<>>] : c \in {"absent", "null", "scalar"}}
    \cup {[k |-> "list", items |-> l] : l \in CommitLists}
Payloads ==
    {[k |-> p, size |-> AbsentSize, commits |-> AbsentCommits, push_id |-> 0] :
        p \in {"absent", "null", "falsy", "scalar"}}
    \cup {[k |-> "map", size |-> s, commits |-> c, push_id |-> 0] :
             s \in Sizes, c \in Commits}
\* The raw event mappings GithubEvent is applied to.
RawEvents ==
    [type : {None, Some(PUSH), Some(FORK)},
     repo : {[k |-> "absent", name |-> None], [k |-> "null", name |-> None],
             [k |-> "scalar", name |-> None], RepoMap(None), RepoMap(Some("a/b"))},
     created_at : {[k |-> "absent", at |-> 0], [k |-> "nonstr", at |-> 0],
                   [k |-> "badstr", at |-> 0], Iso(1)},
     actor : {[k |-> "absent", login |-> None], [k |-> "null", login |-> None],
              ActorMap(Some("al"))},
     payload : Payloads]

\* GithubEvent(event_data) is called.
Build ==
    /\ result.st = "none"
    /\ result' = IF Raises(event_data)
                 THEN [NoResult EXCEPT !.st = "raised"]
                 ELSE [st |-> "ok", ev |-> GithubEvent(event_data)]
    /\ UNCHANGED <<now, memory_cache, cacheFile, tempFile, req, hist, lastRemote,
                   event_data, reloaded, sorting>>

\* The record result.ev is written as save_to_file_cache writes it (lines
\* 204-210), and GithubEvent is called on what json.load gives for it (line 176).
Reload ==
    /\ result.st = "ok"
    /\ reloaded.st = "none"
    /\ LET event == SerializeEvent(result.ev)
       IN  reloaded' = IF Raises(event)
                       THEN [NoResult EXCEPT !.st = "raised"]
                       ELSE [st |-> "ok", ev |-> GithubEvent(event)]
    /\ UNCHANGED <<now, memory_cache, cacheFile, tempFile, req, hist, lastRemote,
                   event_data, result, sorting>>

InitNorm ==
    /\ InitCache
    /\ event_data \in RawEvents
    /\ result = NoResult
    /\ reloaded = NoResult
    /\ NoSorting

NextNorm ==
    \/ Build
    \/ Reload

SpecNorm == InitNorm /\ [][NextNorm]_vars

\* ------------------------------------------------------------- sorting
AbsentCreatedAt == [k |-> "absent", at |-> 0]
\* The records sort() is applied to: with and without a type, a repository
\* name and a created_at.
SortEvents ==
    {GithubEvent([RawNone EXCEPT !.type = t, !.repo = r, !.created_at = c]) :
        t \in {None, Some(PUSH)},
        r \in {AbsentRepo, RepoMap(Some("a/b")), RepoMap(Some("c/d"))},
        c \in {AbsentCreatedAt, Iso(1)}}
SortLists == UNION {[1..n -> SortEvents] : n \in 0..MaxEvents}

\* sort_strategy.sort(events_in) is called; sorted() builds a new list and
\* leaves its argument alone.
CallSort ==
    /\ sorted_out.st = "none"
    /\ sorted_out' = SortCall(sort_strategy, events_in)
    /\ UNCHANGED <<now, memory_cache, cacheFile, tempFile, req, hist, lastRemote,
                   event_data, result, reloaded, events_in, sort_strategy, stats>>

InitSort ==
    /\ InitCache
    /\ event_data = RawNone
    /\ result = NoResult
    /\ reloaded = NoResult
    /\ events_in \in SortLists
    /\ sort_strategy \in Strategies
    /\ sorted_out = NoSorted
    /\ stats = NoStats

NextSort == CallSort

SpecSort == InitSort /\ [][NextSort]_vars

\* ---------------------------------------------------------- statistics
\* The records aggregate_stats is applied to at time t: of every kind, a Push
\* with and without commits, without a created_at and with one before the
\* window, at its two ends and after t.
StatTypes ==
    {None, Some(PUSH), Some(PULL_REQUEST), Some(ISSUES), Some(WATCH), Some(FORK),
     Some(CREATE), Some(DELETE), Some("GollumEvent")}
\* A type and the payload's "size".
StatKinds == {<<ty, 0>> : ty \in StatTypes} \cup {<<Some(PUSH), 3>>}
StatEvents(t) ==
    {GithubEvent([RawNone EXCEPT
                     !.type = kd[1], !.created_at = c,
                     !.payload = [EmptyPayload EXCEPT
                                     !.size = [k |-> "int", n |-> kd[2]]]]) :
        kd \in StatKinds,
        c \in {AbsentCreatedAt, Iso(t - STATS_DAYS - 1), Iso(t - STATS_DAYS),
               Iso(t), Iso(t + 1)}}
StatLists(t) == UNION {[1..n -> StatEvents(t)] : n \in 0..MaxStatEvents}

\* aggregate_stats(events_in, STATS_DAYS) is called (line 336).
CallAggregate ==
    /\ stats.st = "none"
    /\ stats' = aggregate_stats(events_in, STATS_DAYS, now)
    /\ UNCHANGED <<memory_cache, cacheFile, tempFile, req, hist, lastRemote,
                   event_data, result, reloaded, events_in, sort_strategy,
                   sorted_out, now>>

InitStats ==
    /\ now = MaxTime
    /\ InitTiers
    /\ event_data = RawNone
    /\ result = NoResult
    /\ reloaded = NoResult
    /\ events_in \in StatLists(now)
    /\ sort_strategy = "SortByDate"
    /\ sorted_out = NoSorted
    /\ stats = NoStats

NextStats == CallAggregate

SpecStats == InitStats /\ [][NextStats]_vars

\* ============================================================ the claims ==
UserOf(r) == req[r].username
Done(r) == req[r].pc = "done"
\* The time the records of a list were served by the remote source.
ServedAt(events) == {events[i].payload.push_id : i \in 1..Len(events)}
\* The durable file holds a well-formed entry, Fresh at t, with a record.
UsableFile(f, t) ==
    /\ f.st = "data"
    /\ Complete(f.chunks)
    /\ t - f.chunks[1].d.timestamp < TTL
    /\ f.chunks[1].d.events # <<>>
    /\ ~AnyRaises(f.chunks[1].d.events)
RemoteFailures == {"404", "http", "transport"}

\* C1: a fetch() called less than TTL after a fetch() of the same process got
\* a non-empty result for the key from the remote source has returned once
\* its first step is over, with True, with exactly the records of that
\* result, and without a remote call.
C1_FreshEntryServed ==
    \A r \in Requests :
        (/\ hist[r].called
         /\ hist[r].prior.has
         /\ hist[r].started - hist[r].prior.t < TTL)
        => /\ Done(r)
           /\ req[r].ret = "true"
           /\ req[r].events = hist[r].prior.events
           /\ hist[r].calls = 0

\* C1 witness: a fetch() one clock unit after the remote fetch was served the
\* earlier records.
C1_Witness ==
    \E r \in Requests :
        /\ Done(r) /\ req[r].ret = "true" /\ hist[r].calls = 0
        /\ hist[r].prior.has
        /\ hist[r].started = hist[r].prior.t + 1
        /\ req[r].events = hist[r].prior.events

\* C2: whenever fetch() is satisfied from the in-process tier or from the
\* durable tier, the records it returns were served by the remote source less
\* than TTL before the call.
C2_CachedRecordsYoungerThanTTL ==
    \A r \in Requests :
        (Done(r) /\ req[r].ret = "true" /\ hist[r].src \in {"memory", "file"})
        => \A v \in ServedAt(req[r].events) : hist[r].started - v < TTL

\* C3: a fetch() that finds no Fresh in-process entry and a usable durable
\* file returns True with the records rebuilt from the file, stores them in
\* the in-process tier, makes no remote call and leaves both files as they were.
C3_DurableHitPromoted ==
    \A r \in Requests :
        (/\ hist[r].called
         /\ req[r].pc # "file"
         /\ ~(hist[r].pre.mem.has /\ hist[r].started - hist[r].pre.mem.time < TTL)
         /\ UsableFile(hist[r].pre.file, hist[r].started))
        => /\ Done(r)
           /\ req[r].ret = "true"
           /\ req[r].events = Normalize(hist[r].pre.file.chunks[1].d.events)
           /\ memory_cache[UserOf(r)].has
           /\ memory_cache[UserOf(r)].events = req[r].events
           /\ hist[r].calls = 0
           /\ cacheFile[UserOf(r)] = hist[r].pre.file
           /\ tempFile[UserOf(r)] = hist[r].pre.temp

\* C3 witness: after a restart the records came from the durable file.
C3_Witness ==
    \E r \in Requests :
        /\ Done(r) /\ hist[r].src = "file"
        /\ ~hist[r].pre.mem.has
        /\ UsableFile(hist[r].pre.file, hist[r].started)
        /\ Len(req[r].events) = 2

\* C4: after a remote fetch that succeeded with an empty list, fetch() has
\* not reported failure, and a Fresh entry with no records is in the
\* in-process tier or in the durable tier.
C4_EmptyResultCached ==
    \A r \in Requests :
        (Done(r) /\ hist[r].resp = "empty")
        => /\ req[r].ret # "false"
           /\ \/ /\ memory_cache[UserOf(r)].has
                 /\ memory_cache[UserOf(r)].events = <<>>
                 /\ now - memory_cache[UserOf(r)].time < TTL
              \/ /\ cacheFile[UserOf(r)].st = "data"
                 /\ Complete(cacheFile[UserOf(r)].chunks)
                 /\ cacheFile[UserOf(r)].chunks[1].d.events = <<>>
                 /\ now - cacheFile[UserOf(r)].chunks[1].d.timestamp < TTL

\* C5: a fetch() whose remote call failed (404, another status, a transport
\* error) returns False after exactly one remote call, with the events of the
\* Request and the in-process entry of the key as they were before the call.
C5_FailurePropagates ==
    \A r \in Requests :
        (Done(r) /\ hist[r].resp \in RemoteFailures)
        => /\ req[r].ret = "false"
           /\ hist[r].calls = 1
           /\ req[r].events = hist[r].pre.events
           /\ memory_cache[UserOf(r)] = hist[r].pre.mem

\* C5 witness: the remote call failed while both tiers held a Stale entry.
C5_Witness ==
    \E r \in Requests :
        /\ Done(r) /\ hist[r].resp \in RemoteFailures /\ req[r].ret = "false"
        /\ hist[r].pre.mem.has
        /\ hist[r].started - hist[r].pre.mem.time >= TTL
        /\ hist[r].pre.file.st = "data"

\* C6: once a save_to_file_cache that raised inside its try has returned,
\* the durable file of the key is what it was before the call and the key
\* has no temporary file.
C6_FailedSaveLeavesDurableFile ==
    \A r \in Requests :
        (Done(r) /\ hist[r].saveFailed)
        => /\ cacheFile[UserOf(r)] = hist[r].pre.file
           /\ tempFile[UserOf(r)].st = "none"

\* C6 witness: a write() raised after the first block, over an existing
\* durable file.
C6_Witness ==
    \E r \in Requests :
        /\ Done(r) /\ hist[r].saveFailed
        /\ req[r].written = 1
        /\ hist[r].pre.file.st = "data"
        /\ cacheFile[UserOf(r)] = hist[r].pre.file

\* The durable file is missing, unreadable, no JSON, without the expected
\* members (of the file or of an event), cut short, or Stale at t.
UnusableFile(f, t) ==
    \/ f.st \in {"none", "unreadable", "garbage", "nofields"}
    \/ /\ f.st = "data"
       /\ \/ ~Complete(f.chunks)
          \/ AnyRaises(f.chunks[1].d.events)
          \/ t - f.chunks[1].d.timestamp >= TTL

\* C7: with no Fresh in-process entry and such a durable file, fetch() is not
\* served from the file: it goes on to the remote call, and what it returns
\* is decided by the remote response alone.
C7_BadFileIsMiss ==
    \A r \in Requests :
        (/\ hist[r].called
         /\ req[r].pc # "file"
         /\ ~(hist[r].pre.mem.has /\ hist[r].started - hist[r].pre.mem.time < TTL)
         /\ UnusableFile(hist[r].pre.file, hist[r].started))
        => /\ hist[r].src # "file"
           /\ req[r].pc = "remote" \/ hist[r].calls = 1
           /\ Done(r) => (req[r].ret = "true" <=> hist[r].resp = "ok")

\* C7 witness: the durable file was no JSON and the fetch succeeded remotely.
C7_Witness ==
    \E r \in Requests :
        /\ Done(r) /\ req[r].ret = "true" /\ hist[r].resp = "ok"
        /\ hist[r].pre.file.st = "garbage"

\* C8: a fetch() whose remote call gave records and whose durable write
\* failed returns True with the new records, which the in-process tier holds
\* with the time of the fetch; and a fetch() less than TTL after such a fetch
\* is served from the in-process tier.
C8_WriteFailureNotFatal ==
    \A r \in Requests :
        /\ (Done(r) /\ hist[r].resp = "ok" /\ hist[r].saveFailed)
           => /\ req[r].ret = "true"
              /\ ServedAt(req[r].events) = {hist[r].started}
              /\ memory_cache[UserOf(r)] =
                    [has |-> TRUE, events |-> req[r].events,
                     time |-> hist[r].started]
        /\ (/\ hist[r].called
            /\ hist[r].prior.has /\ hist[r].prior.saveFailed
            /\ hist[r].started - hist[r].prior.t < TTL)
           => /\ Done(r) /\ hist[r].src = "memory"
              /\ req[r].ret = "true"
              /\ req[r].events = hist[r].prior.events

\* C8 witness: a fetch() served from the in-process tier one clock unit after
\* a fetch whose durable write failed.
C8_Witness ==
    \E r \in Requests :
        /\ Done(r) /\ hist[r].src = "memory"
        /\ hist[r].prior.has /\ hist[r].prior.saveFailed
        /\ hist[r].started = hist[r].prior.t + 1
        /\ cacheFile[UserOf(r)].st = "none"

\* C9: with two fetch() calls of one key running at once, the durable file is
\* never a partly written entry, and the temporary file a flow is writing is
\* not truncated, renamed or deleted by the other: it holds the blocks the
\* flow wrote, under its own name.
C9_NoTempFileRace ==
    /\ \A u \in Users :
          cacheFile[u].st = "data" => Complete(cacheFile[u].chunks)
    /\ \A r \in Requests :
          req[r].pc = "write"
          => /\ req[r].fd = "temp"
             /\ Len(tempFile[UserOf(r)].chunks) >= req[r].written
             /\ \A i \in 1..req[r].written :
                   tempFile[UserOf(r)].chunks[i] = Chunk(req[r].cache_data, i)

\* C10: GithubEvent(event_data) builds a record for every raw event mapping,
\* and the record has the sentinel instant when created_at is missing, not a
\* string or not parseable.
C10_NormalizationTotal ==
    /\ result.st # "raised"
    /\ (result.st = "ok" /\ event_data.created_at.k # "iso")
       => result.ev.created_at = DatetimeMin

\* The number of times e is in the list s.
Count(s, e) == Cardinality({i \in 1..Len(s) : s[i] = e})
Items(s) == {s[i] : i \in 1..Len(s)}
IsPermutation(a, b) ==
    /\ Len(a) = Len(b)
    /\ \A e \in Items(a) \cup Items(b) : Count(a, e) = Count(b, e)
\* The records of equal key are in b in the order they have in a.
SameOrderOfEqualKeys(strategy, a, b) ==
    \A k \in {KeyOf(strategy, a[i]) : i \in 1..Len(a)} :
        LET HasKey(e) == KeyOf(strategy, e) = k
        IN  SelectSeq(a, HasKey) = SelectSeq(b, HasKey)

\* C11: a call of sort() of any of the three strategies returns a list, leaves
\* the list it was given as it was, and the list it returns is a permutation
\* of that list in which records of equal key keep their relative order.
C11_SortStableNonDestructive ==
    [][(sorted_out.st = "none" /\ sorted_out'.st # "none")
       => /\ sorted_out'.st = "ok"
          /\ events_in' = events_in
          /\ IsPermutation(events_in, sorted_out'.list)
          /\ SameOrderOfEqualKeys(sort_strategy, events_in, sorted_out'.list)]_vars

\* C12: SortByRepository.sort returns a list for every list of records, also
\* one with records without a repository name, and the records that have a
\* name are in it in ascending order of the name.
C12_SortByRepositoryTotal ==
    (sort_strategy = "SortByRepository" /\ sorted_out.st # "none")
    => /\ sorted_out.st = "ok"
       /\ IsPermutation(events_in, sorted_out.list)
       /\ \A i, j \in 1..Len(sorted_out.list) :
             (/\ i < j
              /\ sorted_out.list[i].repo_name # None
              /\ sorted_out.list[j].repo_name # None)
             => StrRank(sorted_out.list[i].repo_name[1])
                   <= StrRank(sorted_out.list[j].repo_name[1])

\* The sum of commit_count over the Push records of s.
RECURSIVE CommitsOf(_)
CommitsOf(s) ==
    IF s = <<>> THEN 0
    ELSE CommitsOf(Tail(s)) + (IF s[1].type = Some(PUSH) THEN s[1].commit_count ELSE 0)
\* The bucket the statistics name for a kind.
BucketOfKind ==
    [ty \in StatTypes |->
        CASE ty = Some(PUSH)         -> "Commits"
          [] ty = Some(PULL_REQUEST) -> "Pull requests"
          [] ty = Some(ISSUES)       -> "Issues"
          [] ty = Some(WATCH)        -> "Stars / Watches"
          [] ty = Some(FORK)         -> "Forks"
          [] ty = Some(CREATE)       -> "Creates"
          [] ty = Some(DELETE)       -> "Deletes"
          [] OTHER                   -> "Other"]
\* What the statistics of the records of list w are to be: no data when there
\* is none; else the commits of the Push records and the number of records of
\* every other bucket, for the buckets that have a record.
StatsOf(w) ==
    IF w = <<>> THEN [st |-> "None", counts |-> <<>>]
    ELSE [st |-> "dict",
          counts |-> [b \in {BucketOfKind[w[i].type] : i \in 1..Len(w)} |->
                         IF b = "Commits" THEN CommitsOf(w)
                         ELSE Cardinality({i \in 1..Len(w) :
                                              BucketOfKind[w[i].type] = b})]]

\* C13: aggregate_stats counts exactly the records whose created_at is not the
\* sentinel and lies in [now - STATS_DAYS, now]: older records, records with
\* the sentinel and records later than now add nothing and do not keep the
\* result from being "no data".
C13_ClosedWindow ==
    stats.st # "none"
    => LET InWindow(e) == /\ e.created_at # DatetimeMin
                          /\ now - STATS_DAYS <= e.created_at
                          /\ e.created_at <= now
       IN  stats = StatsOf(SelectSeq(events_in, InWindow))

\* C14: aggregate_stats returns None exactly when no record passes
\* filter_recent_events; else a mapping whose "Commits" is the sum of
\* commit_count of the Push records that pass, whose other buckets are the
\* numbers of passing records of their kinds, unrecognised and absent kinds
\* under "Other", and which has the buckets of the kinds that occur and no other.
C14_StatsBuckets ==
    stats.st # "none"
    => LET Passes(e) == /\ e.created_at # DatetimeMin
                        /\ e.created_at >= now - STATS_DAYS
       IN  stats = StatsOf(SelectSeq(events_in, Passes))

\* C14 witness: one Push of 3 commits and one Fork in the window gave
\* {"Commits": 3, "Forks": 1}.
C14_Witness ==
    /\ Len(events_in) = 2
    /\ stats = [st |-> "dict", counts |-> ("Commits" :> 3 @@ "Forks" :> 1)]

\* The raw event is a PushEvent that has what lines 27, 42 and 45 need: its
\* "repo" and "actor" are mappings or missing, its payload is a mapping.
PushPayload(raw) ==
    /\ raw.type = Some(PUSH)
    /\ raw.repo.k \in {"absent", "map"}
    /\ raw.actor.k \in {"absent", "map"}
    /\ raw.payload.k = "map"
\* payload["size"] is null, "", a string that is no number, a list, NaN, or a
\* number (or numeric string, or False) that is not above 0.
NonPositiveOrNonNumeric(s) ==
    \/ s.k \in {"null", "str_empty", "str_bad", "list", "nan"}
    \/ (s.k \in {"int", "str_int", "bool"} /\ s.n <= 0)
    \/ (s.k = "float" /\ s.n < 0)

\* C15: GithubEvent gives every PushEvent payload a commit_count >= 0; the
\* commit_count is the length of the commit list when there is one and size
\* is not positive or no number, and it is size when size is a positive int.
C15_PushCommitCount ==
    (result.st # "none" /\ PushPayload(event_data))
    => /\ result.st = "ok"
       /\ result.ev.commit_count >= 0
       /\ (/\ NonPositiveOrNonNumeric(event_data.payload.size)
           /\ event_data.payload.commits.k = "list")
          => result.ev.commit_count = Len(event_data.payload.commits.items)
       /\ (event_data.payload.size.k = "int" /\ event_data.payload.size.n > 0)
          => result.ev.commit_count = event_data.payload.size.n

\* C16: a record written as save_to_file_cache writes it and built again by
\* GithubEvent from what was written has the type, repo_name, actor,
\* created_at and commit_count it had.
C16_RoundTrip ==
    reloaded.st # "none"
    => /\ reloaded.st = "ok"
       /\ reloaded.ev.type = result.ev.type
       /\ reloaded.ev.repo_name = result.ev.repo_name
       /\ reloaded.ev.actor = result.ev.actor
       /\ reloaded.ev.created_at = result.ev.created_at
       /\ reloaded.ev.commit_count = result.ev.commit_count

\* C16 witness: a PushEvent of size 2 without a created_at went through.
C16_Witness ==
    /\ reloaded.st = "ok"
    /\ result.ev.type = Some(PUSH)
    /\ event_data.payload.size = [k |-> "int", n |-> 2]
    /\ result.ev.commit_count = 2
    /\ result.ev.created_at = DatetimeMin
    /\ event_data.created_at.k = "absent"

\* The list is in the order of the strategy: newest first for SortByDate,
\* ascending key for the other two.
InOrder(strategy, list) ==
    \A i, j \in 1..Len(list) :
        i < j => IF strategy = "SortByDate"
                 THEN ~KeyLess(KeyOf(strategy, list[i]), KeyOf(strategy, list[j]))
                 ELSE ~KeyLess(KeyOf(strategy, list[j]), KeyOf(strategy, list[i]))

\* C17: set_sort_strategy changes nothing but the strategy: the events of the
\* Request, the in-process entries and the durable files of all keys stay;
\* and get_sorted_events makes no remote call and returns the records of the
\* Request in the order of the strategy in force.
C17_SwitchKeepsCache ==
    [][\A r \in Requests :
          /\ (\E strat \in Strategies : set_sort_strategy(r, strat))
             => /\ req'[r].events = req[r].events
                /\ memory_cache' = memory_cache
                /\ cacheFile' = cacheFile
          /\ get_sorted_events(r)
             => /\ hist' = hist /\ lastRemote' = lastRemote
                /\ req'[r].events = req[r].events
                /\ req'[r].sorted_events.st = "ok"
                /\ IsPermutation(req[r].events, req'[r].sorted_events.list)
                /\ InOrder(req[r].sortStrategy, req'[r].sorted_events.list)]_vars

\* The durable file holds a well-formed entry with a record, of whatever age.
ReadableFile(f) ==
    /\ f.st = "data"
    /\ Complete(f.chunks)
    /\ f.chunks[1].d.events # <<>>
    /\ ~AnyRaises(f.chunks[1].d.events)
\* The age at the call of r's fetch() of the durable file that was there.
FileAge(r) == hist[r].started - hist[r].pre.file.chunks[1].d.timestamp

\* C18: a fetch() that finds no Fresh in-process entry takes its records from
\* a well-formed durable file when the file's age is TTL minus one unit (and
\* only when the age is below TTL), and not when the age is TTL or TTL plus
\* one unit; and a fetch() is served from the in-process entry of its key
\* exactly when the age of the entry is below TTL.
C18_TTLBoundary ==
    \A r \in Requests :
        /\ (/\ hist[r].called
            /\ req[r].pc # "file"
            /\ ~(hist[r].pre.mem.has /\ hist[r].started - hist[r].pre.mem.time < TTL)
            /\ ReadableFile(hist[r].pre.file))
           => /\ FileAge(r) = TTL - 1
                 => /\ hist[r].src = "file"
                    /\ req[r].events = Normalize(hist[r].pre.file.chunks[1].d.events)
              /\ FileAge(r) = TTL => hist[r].src # "file"
              /\ FileAge(r) = TTL + 1 => hist[r].src # "file"
              /\ hist[r].src = "file" <=> FileAge(r) < TTL
        /\ (hist[r].called /\ hist[r].pre.mem.has)
           => (hist[r].src = "memory"
                  <=> hist[r].started - hist[r].pre.mem.time < TTL)

\* C18 witness: a durable file of age exactly TTL was passed over, in a
\* process that had no in-process entry, and the remote source was called.
C18_Witness ==
    \E r \in Requests :
        /\ Done(r) /\ hist[r].src = "remote"
        /\ ~hist[r].pre.mem.has
        /\ ReadableFile(hist[r].pre.file)
        /\ FileAge(r) = TTL

\* C19: with one flow, whatever step of save_to_file_cache raises and wherever
\* the process ends, the durable file of every key is absent or is the whole
\* output of json.dump for the entry of one successful remote fetch of the
\* key: the records the remote source gave at the entry's timestamp.
C19_DurableFileAbsentOrComplete ==
    \A u \in Users :
        \/ cacheFile[u].st = "none"
        \/ /\ cacheFile[u].st = "data"
           /\ Complete(cacheFile[u].chunks)
           /\ LET d == cacheFile[u].chunks[1].d
              IN  d = BuildCacheData(Normalize(Feed(u, d.timestamp)), d.timestamp)

\* C19 witness: the process ended after the first block of a newer entry was
\* written to the temporary file; the durable file still is the older entry.
C19_Witness ==
    \E u \in Users :
        /\ \A r \in Requests : req[r].pc = "none"
        /\ tempFile[u].st = "data"
        /\ Len(tempFile[u].chunks) = 1
        /\ cacheFile[u].st = "data"
        /\ Complete(cacheFile[u].chunks)
        /\ cacheFile[u].chunks[1].d.timestamp < tempFile[u].chunks[1].d.timestamp

\* C20: with one flow, fetch() calls and restarts in any order: the records
\* of a fetch() that returned True were served by the remote source less than
\* 2 x TTL before the call.  A promotion leaves the durable file as it is and
\* happens only when the process holds no in-process entry of the key; an
\* in-process entry is never older than the durable file, so that a fetch()
\* that finds a Stale in-process entry calls the remote source.
C20_BoundedStaleness ==
    /\ \A r \in Requests :
          /\ (Done(r) /\ req[r].ret = "true")
             => \A v \in ServedAt(req[r].events) : hist[r].started - v < 2 * TTL
          /\ (Done(r) /\ hist[r].src = "file")
             => /\ cacheFile[UserOf(r)] = hist[r].pre.file
                /\ ~hist[r].pre.mem.has
          /\ (/\ hist[r].called
              /\ req[r].pc # "file"
              /\ hist[r].pre.mem.has
              /\ hist[r].started - hist[r].pre.mem.time >= TTL)
             => hist[r].calls = 1 \/ req[r].pc = "remote"
    /\ \A u \in Users :
          (/\ memory_cache[u].has
           /\ cacheFile[u].st = "data" /\ Complete(cacheFile[u].chunks)
           /\ now - memory_cache[u].time >= TTL)
          => now - cacheFile[u].chunks[1].d.timestamp >= TTL

\* C20 witness: after a restart and a promotion, a fetch() was served from
\* the in-process tier records that were TTL old or older.
C20_Witness ==
    \E r \in Requests :
        /\ Done(r) /\ req[r].ret = "true" /\ hist[r].src = "memory"
        /\ req[r].events # <<>>
        /\ \A v \in ServedAt(req[r].events) : hist[r].started - v >= TTL
        /\ cacheFile[UserOf(r)].st = "data"
        /\ cacheFile[UserOf(r)].chunks[1].d.timestamp < memory_cache[UserOf(r)].time

\* What makes fetch() report failure: a failed remote call, an empty remote
\* result, a remote result GithubEvent raises on.
FailureCauses == RemoteFailures \cup {"empty", "raises"}

\* C21: when fetch() has returned False for one of these causes, the events
\* of the Request, the in-process entry and the durable file of the key are
\* what they were before the call; and get_sorted_events called on the
\* Request after that gives what sorting the events from before the call gives.
C21_FailedFetchKeepsState ==
    \A r \in Requests :
        (/\ req[r].pc \in {"done", "sorted"}
         /\ req[r].ret = "false"
         /\ hist[r].resp \in FailureCauses)
        => /\ req[r].events = hist[r].pre.events
           /\ memory_cache[UserOf(r)] = hist[r].pre.mem
           /\ cacheFile[UserOf(r)] = hist[r].pre.file
           /\ req[r].pc = "sorted"
              => req[r].sorted_events =
                    SortCall(req[r].sortStrategy, hist[r].pre.events)

\* C21 witness: a Request that had two records from an earlier fetch() was
\* fetched again when both tiers were Stale, the remote call failed, and
\* get_sorted_events returned the two earlier records.
C21_Witness ==
    \E r \in Requests :
        /\ req[r].pc = "sorted" /\ req[r].ret = "false"
        /\ hist[r].resp \in RemoteFailures
        /\ Len(hist[r].pre.events) = 2
        /\ hist[r].pre.mem.has /\ hist[r].pre.file.st = "data"
        /\ req[r].sorted_events.st = "ok"
        /\ IsPermutation(hist[r].pre.events, req[r].sorted_events.list)

=============================================================================
